---- MODULE Spec2Model ----
(***************************************************************************)
(* Resizable-panel gesture and layout engine of @itwin/mobile-ui-react:    *)
(* TouchDragHandle / TouchCaptor / DraggableComponent (touch layer),       *)
(* ResizablePanel (height controller) and BottomPanel (open/close events). *)
(* Each layer has its own specification over the shared variables.         *)
(***************************************************************************)
EXTENDS Integers, Sequences, FiniteSets, TLC

(***************************************************************************)
(* Bounds of the model                                                     *)
(***************************************************************************)
\* largest y coordinate a touch can report
MaxY == 7
\* largest number of simultaneous contacts on the screen
MaxFingers == 2

(***************************************************************************)
(* Touch layer: TouchDragHandle + TouchCaptor + DraggableComponent         *)
(***************************************************************************)
VARIABLES
  fingers,        \* environment: contacts currently on the screen (e.touches.length)
  isPointerDown,  \* TouchDragHandle.state.isPointerDown
  initial,        \* TouchDragHandle._initial
  lastPosition,   \* DraggableComponent's lastPosition state
  lastCallback,   \* callback the last handler invoked on the consumer, with its argument
  sess,           \* history: the touch session most recently begun on the handle
  sessInitial,    \* history: where that session's finger landed
  sessCrossed,    \* history: a single-contact move of the session reported a point >= 6 px away
  sessSecond,     \* history: another contact appeared during the session before that
  sessStarts,     \* history: onDragStart calls since the session began
  sessStartArg,   \* history: argument of the session's last onDragStart
  sessEnds,       \* history: onDragEnd calls since the session began
  lastTouch       \* history: the touch point the last touch-move reported

touchVars == <<fingers, isPointerDown, initial, lastPosition, lastCallback,
               sess, sessInitial, sessCrossed, sessSecond, sessStarts, sessStartArg, sessEnds,
               lastTouch>>

\* the "undefined" of an XAndY | undefined
NoPoint == [x |-> -1, y |-> -1]

XCoords == {0, 3}
YCoords == 0..MaxY
Points == [x : XCoords, y : YCoords]

\* distance threshold of _handlePointerMove, in px
DragThreshold == 6

\* Point2d.distance(a, b) >= limit, on integer coordinates: sqrt(dx^2 + dy^2) >= limit
DistanceAtLeast(a, b, limit) ==
  (a.x - b.x) * (a.x - b.x) + (a.y - b.y) * (a.y - b.y) >= limit * limit

\* Point2d.minus
Minus(a, b) == [x |-> a.x - b.x, y |-> a.y - b.y]

\* TouchDragHandle.render: isTouchStarted={lastPosition === undefined ? isPointerDown : true}
IsTouchStarted == IF lastPosition = NoPoint THEN isPointerDown ELSE TRUE

NoCallback == [name |-> "none", arg |-> NoPoint]

Cap2(n) == IF n >= 2 THEN 2 ELSE n

TouchInit ==
  /\ fingers = 0
  /\ isPointerDown = FALSE
  /\ initial = NoPoint
  /\ lastPosition = NoPoint
  /\ lastCallback = NoCallback
  /\ sess = "none"
  /\ sessInitial = NoPoint
  /\ sessCrossed = FALSE
  /\ sessSecond = FALSE
  /\ sessStarts = 0
  /\ sessStartArg = NoPoint
  /\ sessEnds = 0
  /\ lastTouch = NoPoint

(***************************************************************************)
(* Height controller: ResizablePanel                                       *)
(***************************************************************************)
VARIABLES
  mounted,          \* isMountedRef.current
  flickEnabled,     \* props.onFlickDown is supplied
  heightCanExceedContents, \* props.heightCanExceedContents
  propsMaxHeight,   \* props.maxHeight (0: not specified)
  outerHeight,      \* window.outerHeight
  height,           \* heightState: number | "100vh" | undefined
  domHeight,        \* divRef.current.clientHeight of the committed render
  startHeight,      \* startHeight state
  startTop,         \* startTop state
  maxHeight,        \* maxHeight state
  lastDragInfo,     \* lastDragInfo state: dragged, age of the sample in ms (Date.now() - time), speed
  flickingUp,       \* flickingUp state
  timers,           \* pending setTimeout callbacks, in the order they were scheduled
  phase,            \* "idle" or "dragging": between onDragStart and onDragEnd
  calls,            \* callbacks of the host invoked by the last step, in order
  lastOp            \* the last operation with its inputs and the branch it took

panelVars == <<mounted, flickEnabled, heightCanExceedContents, propsMaxHeight,
               outerHeight, height, domHeight, startHeight, startTop, maxHeight,
               lastDragInfo, flickingUp, timers, phase, calls, lastOp>>

\* BottomPanel under a TabBar
VARIABLES
  bpMounted,   \* the TabBar and its panels are mounted
  legacy,      \* the panels are the BottomPanel of src/mobile-ui-react (oldTop) rather than the current one
  selected,    \* TabBar's selectedIndex (0: none); panel p is rendered with isOpen = (p = selected)
  opened,      \* opened state of each panel
  appData,     \* appData prop of each panel
  bpTimers,    \* pending zero-delay timers of the open effect, in the order they were scheduled
  log,         \* callbacks invoked and global events emitted so far, in order
  pass,        \* number of render/effect passes so far
  swaps,       \* history: passes in which one panel closed and another opened
  flipsUp,     \* history: false-to-true flips of each panel's isOpen (a mount with isOpen counts)
  flipsDown,   \* history: true-to-false flips of each panel's isOpen
  bpOp,        \* the last operation
  bpHeight,    \* clientHeight of each panel
  topWhenClosed, \* topWhenClosed.current of each panel (legacy panel: oldTop of its last render)
  bpTimerArgs, \* what the closure of each pending timer holds, in the order of bpTimers
  payloads     \* the height and top each entry of the log carried, in the order of the log

bpVars == <<bpMounted, legacy, selected, opened, appData, bpTimers, log, pass, swaps,
            flipsUp, flipsDown, bpOp, bpHeight, topWhenClosed, bpTimerArgs, payloads>>

\* ResizableBottomPanel
VARIABLES
  rbMounted,      \* the component is mounted (ref.current is set)
  rbHasAutoClose, \* props.onAutoClose is supplied
  rbHasFlickDown, \* props.onFlickDown is supplied
  rbIsOpen,       \* props.isOpen, the host's state
  rbAutoClosed,   \* autoClosed state
  rbFlickingDown, \* flickingDown state
  rbHeight,       \* rendered height of the panel (getBoundingClientRect().height)
  rbTimers,       \* pending setTimeout callbacks, in the order they were scheduled
  rbLateSets,     \* history: state setters called after the component was unmounted
  rbSuppressed,   \* history: a close effect has run without calling the host's onClose
  rbCalls,        \* host callbacks invoked and global events emitted by the last step, in order
  rbOp            \* the last operation with its inputs and the value its handler returned

rbVars == <<rbMounted, rbHasAutoClose, rbHasFlickDown, rbIsOpen, rbAutoClosed, rbFlickingDown,
            rbHeight, rbTimers, rbLateSets, rbSuppressed, rbCalls, rbOp>>

\* granularity of the clock, in ms
TickMs == 350
\* oldest velocity sample the clock lets a drag reach, in ticks
MaxAge == 1
\* most timers pending at once
MaxTimers == 1

\* environment geometry, in px
ContentHeight == 300
MaxInitialHeight == 250
SafeAreaOffsets == 0
OuterHeights == {450, 600}
InitialOuterHeight == 600
\* the props a panel is mounted with: onFlickDown supplied, heightCanExceedContents, maxHeight
PanelConfigs == {<<TRUE, FALSE, 0>>, <<FALSE, FALSE, 0>>, <<FALSE, TRUE, 0>>, <<FALSE, FALSE, 275>>}

\* props.minHeight (BottomPanel.scss min-height)
MinHeight == 40
\* margin updateMaxHeight keeps above the panel
WindowMargin == 100
\* --mui-bottom-panel-animation-duration, in ms
AnimationDurationMs == 300
\* what onDragEnd adds to the animation duration
FlickExtraMs == 50
\* the flick threshold |speed| > 0.5, as a fraction
SpeedLimitNum == 1
SpeedLimitDen == 2

\* displacements a drag can report (current touch point minus lastPosition, y)
DragSet == {-350, 175}

\* Not-a-Number, what a malformed touch point hands to onDrag; it stands apart from every
\* number of the model
NaN == 1000000
IsNaN(x) == x = NaN
\* a - b of two JavaScript numbers
Sub(a, b) == IF IsNaN(a) \/ IsNaN(b) THEN NaN ELSE a - b

Min(a, b) == IF a <= b THEN a ELSE b
Max(a, b) == IF a >= b THEN a ELSE b
Abs(a) == IF a < 0 THEN -a ELSE a

\* values of heightState
HNum(n) == [t |-> "num", n |-> n]
HVh == [t |-> "vh", n |-> 100]
HUndef == [t |-> "undefined", n |-> 0]

\* props.flickUpHeight
FlickUpHeights == {HUndef, HNum(275)}

\* values a host callback returns: boolean | number | undefined, or the callback is not supplied
RBool(b) == [t |-> "boolean", b |-> b, n |-> 0]
RNum(n) == [t |-> "number", b |-> FALSE, n |-> n]
RUndef == [t |-> "undefined", b |-> FALSE, n |-> 0]
RAbsent == [t |-> "absent", b |-> FALSE, n |-> 0]
\* a delay in ms the host's onResized returns to cancel a resize
RejectDelayMs == 5
ResizedResults == {RBool(FALSE), RBool(TRUE), RNum(0), RNum(RejectDelayMs), RUndef, RAbsent}

\* the div's style={{height, minHeight, maxHeight}} as laid out by the browser:
\* min-height wins over max-height, "100vh" is the window height, no height is the content's
ClientHeightNoMax(h, maxH, outer) ==
  LET raw == IF h.t = "num" THEN h.n ELSE IF h.t = "vh" THEN outer ELSE ContentHeight
  IN  Max(MinHeight, raw)
ClientHeight(h, maxH, outer) ==
  LET raw == IF h.t = "num" THEN h.n ELSE IF h.t = "vh" THEN outer ELSE ContentHeight
  IN  Max(MinHeight, Min(maxH, raw))

\* getBoundingClientRect().top of a panel of the given height, anchored to the window's bottom
Top(h, outer) == outer - h

\* getChildExtraScrollableHeight: the trailing child shows clientH of its ContentHeight
getChildExtraScrollableHeight(clientH) ==
  LET scrollHeight == Max(ContentHeight, clientH)
      singleChildHeight == ContentHeight
  IN  Max(Max(scrollHeight, singleChildHeight) - clientH, 0)

getOptimalHeight(clientH) == clientH + getChildExtraScrollableHeight(clientH)

\* updateMaxHeight(newMaxHeight): the value it sets and returns
updateMaxHeightMutant(newMaxHeight, outer, canExceed, propMax) ==
  LET v0 == outer - WindowMargin - SafeAreaOffsets
  IN  IF ~canExceed THEN Min(newMaxHeight, v0) ELSE v0
updateMaxHeight(newMaxHeight, outer, canExceed, propMax) ==
  LET v0 == outer - WindowMargin - SafeAreaOffsets
      v1 == IF ~canExceed THEN Min(newMaxHeight, v0) ELSE v0
  IN  IF propMax # 0 THEN Min(v1, propMax) ELSE v1

\* speed = dist / time, kept as the fraction num / den (den in ms; den = 0 is +-Infinity)
ZeroSpeed == [num |-> 0, den |-> 1]
\* the speed NaN / time: neither above nor below any limit
NaNSpeed == [num |-> 0, den |-> 0]
\* dist / time, for dist # 0
Speed(dist, time) == IF IsNaN(dist) THEN NaNSpeed ELSE [num |-> dist, den |-> time]
AbsSpeedAbove(s, limNum, limDen) ==
  IF s.den = 0 THEN s.num # 0 ELSE Abs(s.num) * limDen > limNum * s.den
SpeedNegative(s) == s.num < 0

Timer(kind, delay, sh, mh) ==
  [kind |-> kind, delay |-> delay, waited |-> 0, startHeight |-> sh, maxHeight |-> mh]

NoOp == [op |-> "none", d |-> 0, result |-> RAbsent, branch |-> "none", closes |-> FALSE,
         flickUpHeight |-> HUndef]

PanelInit ==
  /\ mounted = TRUE
  /\ \E cfg \in PanelConfigs :
       /\ flickEnabled = cfg[1]
       /\ heightCanExceedContents = cfg[2]
       /\ propsMaxHeight = cfg[3]
  /\ outerHeight = InitialOuterHeight
  /\ height = HUndef
  /\ startHeight = 0
  /\ startTop = 0
  \* the layout effect after the first render: currHeight capped by maxInitialHeight
  /\ maxHeight = updateMaxHeight(Min(Max(MinHeight, ContentHeight), MaxInitialHeight),
                                 outerHeight, heightCanExceedContents, propsMaxHeight)
  /\ domHeight = ClientHeight(height, maxHeight, outerHeight)
  /\ lastDragInfo = [dragged |-> 0, age |-> 0, speed |-> ZeroSpeed]
  /\ flickingUp = FALSE
  /\ timers = <<>>
  /\ phase = "idle"
  /\ calls = <<>>
  /\ lastOp = NoOp

(***************************************************************************)
(* ResizablePanel: handlers                                                *)
(***************************************************************************)
Call(name, h, top) == [name |-> name, h |-> h, top |-> top]

staticPanel == <<flickEnabled, heightCanExceedContents, propsMaxHeight>>

\* the render that follows the state changes of a step
Commit == domHeight' = ClientHeight(height', maxHeight', outerHeight')

\* onDragStart
DragStart ==
  /\ UNCHANGED <<touchVars, bpVars, rbVars>>
  /\ mounted /\ phase = "idle"
  /\ phase' = "dragging"
  /\ lastDragInfo' = IF flickEnabled
                       THEN [dragged |-> 0, age |-> 0, speed |-> ZeroSpeed]
                       ELSE lastDragInfo
  /\ startHeight' = domHeight
  /\ startTop' = Top(domHeight, outerHeight)
  /\ maxHeight' = updateMaxHeight(getOptimalHeight(domHeight), outerHeight,
                                  heightCanExceedContents, propsMaxHeight)
  /\ calls' = <<>>
  /\ lastOp' = [NoOp EXCEPT !.op = "onDragStart"]
  /\ UNCHANGED <<mounted, staticPanel, outerHeight, height, flickingUp, timers>>
  /\ Commit

\* the height onDrag accepts for a displacement: startHeight - dragged when it is >= minHeight
AcceptsHeightMutant(newHeight) == TRUE
AcceptsHeight(newHeight) == ~IsNaN(newHeight) /\ newHeight >= MinHeight

\* the top onDrag hands to onResizing: getBoundingClientRect().top read after setHeight
\* (syncFlush: React flushes the setState of a native listener at once, as a legacy root
\* does, so the read sees the new height; otherwise it is batched and the read sees the old one)
ResizingTop(newHeight, syncFlush) ==
  IF syncFlush THEN Top(ClientHeight(HNum(newHeight), maxHeight, outerHeight), outerHeight)
               ELSE Top(domHeight, outerHeight)

\* onDrag(dragged)
Drag(dragged, syncFlush) ==
  /\ UNCHANGED <<touchVars, bpVars, rbVars>>
  /\ mounted /\ phase = "dragging"
  /\ LET dist == Sub(dragged, lastDragInfo.dragged)
         time == lastDragInfo.age
     IN  lastDragInfo' =
           IF flickEnabled /\ dist # 0
             THEN [dragged |-> dragged, age |-> 0, speed |-> Speed(dist, time)]
             ELSE lastDragInfo
  /\ LET newHeight == Sub(startHeight, dragged)
     IN  IF startHeight # 0 /\ AcceptsHeight(newHeight)
           THEN /\ height' = HNum(newHeight)
                /\ calls' = <<Call("onResizing", 0, ResizingTop(newHeight, syncFlush))>>
                /\ lastOp' = [NoOp EXCEPT !.op = "onDrag", !.d = dragged, !.branch = "resized"]
           ELSE /\ height' = height
                /\ calls' = <<>>
                /\ lastOp' = [NoOp EXCEPT !.op = "onDrag", !.d = dragged, !.branch = "rejected"]
  /\ UNCHANGED <<mounted, staticPanel, outerHeight, startHeight, startTop, maxHeight,
                 flickingUp, timers, phase>>
  /\ Commit

\* delayTime of onDragEnd
DelayTime == AnimationDurationMs + FlickExtraMs

\* onDragEnd takes the flick branch
IsFlickMutant == flickEnabled /\ AbsSpeedAbove(lastDragInfo.speed, 0, SpeedLimitDen)
IsFlick == flickEnabled /\ AbsSpeedAbove(lastDragInfo.speed, SpeedLimitNum, SpeedLimitDen)

\* onDragEnd: result !== undefined && result !== false
CancelsResize(result) ==
  ~(result.t \in {"undefined", "absent"}) /\ ~(result.t = "boolean" /\ ~result.b)

\* onDragEnd: const delay = typeof (result) === "number" ? result : 0
RestoreDelayMutant(result) == 0
RestoreDelay(result) == IF result.t = "number" THEN result.n ELSE 0

\* the height a restore timer sets: the startHeight its closure captured
RestoredHeight(t) == HNum(t.startHeight)

\* props.flickUpHeight ?? "100vh"
FlickUpTargetMutant(flickUpHeight) == HVh
FlickUpTarget(flickUpHeight) == IF flickUpHeight = HUndef THEN HVh ELSE flickUpHeight

\* onDragEnd, flick up (lastDragSpeed < 0)
FlickUp(flickUpHeight) ==
  /\ flickingUp' = TRUE
  /\ height' = FlickUpTarget(flickUpHeight)
  /\ timers' = Append(timers, Timer("flickUp", DelayTime, 0, 0))
  /\ calls' = <<>>
  /\ lastOp' = [NoOp EXCEPT !.op = "onDragEnd", !.branch = "flickUp",
                            !.flickUpHeight = flickUpHeight]
  /\ UNCHANGED maxHeight

\* onDragEnd, flick down: if (props.onFlickDown()) schedules the restore
SchedulesRestoreMutant(closes) == TRUE
SchedulesRestore(closes) == closes

\* onDragEnd, flick down
FlickDown(result, closes) ==
  /\ calls' = (IF result.t # "absent"
                 THEN <<Call("onResized", startHeight, startTop)>> ELSE <<>>)
              \o <<Call("onFlickDown", 0, 0)>>
  /\ timers' = IF SchedulesRestore(closes)
                 THEN Append(timers, Timer("restore", DelayTime, startHeight, 0))
                 ELSE timers
  /\ lastOp' = [NoOp EXCEPT !.op = "onDragEnd", !.result = result, !.branch = "flickDown",
                            !.closes = closes]
  /\ UNCHANGED <<height, maxHeight, flickingUp>>

\* onDragEnd, ordinary release: the actual height against startHeight
OrdinaryRelease(result) ==
  LET newHeight == domHeight
      top == Top(domHeight, outerHeight)
  IN  /\ UNCHANGED flickingUp
      /\ IF newHeight = startHeight
           THEN /\ calls' = <<>>
                /\ lastOp' = [NoOp EXCEPT !.op = "onDragEnd", !.branch = "unchanged"]
                /\ UNCHANGED <<height, maxHeight, timers>>
           ELSE /\ calls' = IF result.t # "absent"
                              THEN <<Call("onResized", newHeight, top)>> ELSE <<>>
                /\ IF result.t # "absent" /\ CancelsResize(result)
                     THEN /\ lastOp' = [NoOp EXCEPT !.op = "onDragEnd", !.result = result,
                                                    !.branch = "cancelled"]
                          /\ UNCHANGED maxHeight
                          /\ IF RestoreDelay(result) # 0
                               THEN /\ timers' = Append(timers,
                                          Timer("restore", RestoreDelay(result), startHeight, 0))
                                    /\ UNCHANGED height
                               ELSE /\ height' = HNum(startHeight)
                                    /\ UNCHANGED timers
                     ELSE /\ lastOp' = [NoOp EXCEPT !.op = "onDragEnd", !.result = result,
                                                    !.branch = "accepted"]
                          /\ maxHeight' = updateMaxHeight(newHeight, outerHeight,
                                                          heightCanExceedContents, propsMaxHeight)
                          /\ UNCHANGED <<height, timers>>

\* onDragEnd; result is what the host's onResized returns, closes what its onFlickDown returns
DragEnd(result, closes, flickUpHeight) ==
  /\ UNCHANGED <<touchVars, bpVars, rbVars>>
  /\ mounted /\ phase = "dragging"
  /\ Len(timers) < MaxTimers
  /\ phase' = "idle"
  /\ IF IsFlick
       THEN IF SpeedNegative(lastDragInfo.speed)
              THEN FlickUp(flickUpHeight)
              ELSE FlickDown(result, closes)
       ELSE OrdinaryRelease(result)
  /\ UNCHANGED <<mounted, staticPanel, outerHeight, startHeight, startTop, lastDragInfo>>
  /\ Commit

\* window "resize": onWindowResize defers its work by a zero-delay timer
WindowResize(newOuter) ==
  /\ UNCHANGED <<touchVars, bpVars, rbVars>>
  /\ mounted
  /\ newOuter # outerHeight
  /\ Len(timers) < MaxTimers
  /\ outerHeight' = newOuter
  /\ timers' = Append(timers, Timer("windowResize", 0, 0, maxHeight))
  /\ calls' = <<>>
  /\ lastOp' = [NoOp EXCEPT !.op = "windowResize"]
  /\ UNCHANGED <<mounted, staticPanel, height, startHeight, startTop, maxHeight,
                 lastDragInfo, flickingUp, phase>>
  /\ Commit

\* the component is removed: the cleanup of useIsMountedRef
Unmount ==
  /\ UNCHANGED <<touchVars, bpVars, rbVars>>
  /\ mounted
  /\ mounted' = FALSE
  /\ phase' = "idle"
  /\ calls' = <<>>
  /\ lastOp' = [NoOp EXCEPT !.op = "unmount"]
  /\ UNCHANGED <<staticPanel, outerHeight, height, domHeight, startHeight, startTop,
                 maxHeight, lastDragInfo, flickingUp, timers>>

IsDue(t) == t.waited >= t.delay
NoneDue == \A i \in 1..Len(timers) : ~IsDue(timers[i])

\* time left until timer i is due
TimeLeft(i) == timers[i].delay - timers[i].waited
\* the clock's next step: a tick, or less when a timer is due sooner
TickStep ==
  IF \E i \in 1..Len(timers) : TimeLeft(i) < TickMs
    THEN CHOOSE m \in {TimeLeft(i) : i \in 1..Len(timers)} :
           \A i \in 1..Len(timers) : m <= TimeLeft(i)
    ELSE TickMs

\* the clock advances; a due timer runs before the clock moves on
Tick ==
  /\ UNCHANGED <<touchVars, bpVars, rbVars>>
  /\ NoneDue
  /\ (Len(timers) > 0) \/ (phase = "dragging" /\ flickEnabled)
  /\ (phase = "dragging" /\ flickEnabled) => lastDragInfo.age < MaxAge * TickMs
  /\ timers' = [i \in 1..Len(timers) |->
                  [timers[i] EXCEPT !.waited = timers[i].waited + TickStep]]
  /\ lastDragInfo' = IF phase = "dragging" /\ flickEnabled
                       THEN [lastDragInfo EXCEPT !.age = lastDragInfo.age + TickStep]
                       ELSE lastDragInfo
  /\ calls' = <<>>
  /\ lastOp' = [NoOp EXCEPT !.op = "tick"]
  /\ UNCHANGED <<mounted, staticPanel, outerHeight, height, domHeight, startHeight, startTop,
                 maxHeight, flickingUp, phase>>

RemoveAt(seq, i) == [j \in 1..(Len(seq) - 1) |-> IF j < i THEN seq[j] ELSE seq[j + 1]]

\* the earliest scheduled timer among those that are due
FirstDue == CHOOSE i \in 1..Len(timers) :
              IsDue(timers[i]) /\ \A j \in 1..(i - 1) : ~IsDue(timers[j])

\* a setTimeout callback runs; result is what onResized returns to the flick-up callback
TimerFire(result) ==
  /\ UNCHANGED <<touchVars, bpVars, rbVars>>
  /\ ~NoneDue
  /\ LET i == FirstDue
         t == timers[i]
     IN  /\ timers' = RemoveAt(timers, i)
         /\ lastOp' = [NoOp EXCEPT !.op = "timer", !.branch = t.kind, !.d = t.startHeight,
                                   !.result = IF t.kind = "flickUp" THEN result ELSE RAbsent]
         /\ IF ~mounted
              THEN /\ calls' = <<>>
                   /\ UNCHANGED <<height, maxHeight, flickingUp>>
              ELSE CASE t.kind = "restore" ->
                          /\ height' = RestoredHeight(t)
                          /\ calls' = <<>>
                          /\ UNCHANGED <<maxHeight, flickingUp>>
                     [] t.kind = "flickUp" ->
                          /\ flickingUp' = FALSE
                          /\ calls' = IF result.t # "absent"
                                        THEN <<Call("onResized", domHeight,
                                                    Top(domHeight, outerHeight))>>
                                        ELSE <<>>
                          /\ UNCHANGED <<height, maxHeight>>
                     [] t.kind = "windowResize" ->
                          /\ LET newMaxHeight == outerHeight - WindowMargin - SafeAreaOffsets
                             IN  maxHeight' = IF t.maxHeight > newMaxHeight
                                                THEN newMaxHeight ELSE maxHeight
                          /\ calls' = <<>>
                          /\ UNCHANGED <<height, flickingUp>>
  /\ UNCHANGED <<mounted, staticPanel, outerHeight, startHeight, startTop, lastDragInfo, phase>>
  /\ Commit

(***************************************************************************)
(* Open/close notifications: BottomPanel under a TabBar                    *)
(***************************************************************************)
\* panels under the TabBar, in the order they are rendered
NumPanels == 2
\* render/effect passes the host triggers
MaxPasses == 4

Panels == 1..NumPanels
NoPanel == 0
AppDataValues == {0, 1}

Entry(kind, panel, n) == [kind |-> kind, panel |-> panel, pass |-> n]

\* y of the edge the panels' bottoms are anchored to (bottom: tab bar + safe area), in px:
\* the top of a panel that is closed (transform: translateY(100%))
BottomEdge == 600
\* heights of a panel's contents
BpHeights == {200, 300}
\* the "undefined" of topWhenClosed.current and of oldTop
NoTop == -1

\* what a callback or an event carried: height, top, and the topWhenClosed.current (oldTop)
\* the top was computed from
Payload(h, top, ref) == [h |-> h, top |-> top, ref |-> ref]

BottomInit ==
  /\ bpMounted = FALSE
  /\ legacy \in BOOLEAN
  /\ selected = NoPanel
  /\ opened = [p \in Panels |-> FALSE]
  /\ appData = [p \in Panels |-> 0]
  /\ bpTimers = <<>>
  /\ log = <<>>
  /\ pass = 0
  /\ swaps = {}
  /\ flipsUp = [p \in Panels |-> 0]
  /\ flipsDown = [p \in Panels |-> 0]
  /\ bpOp = "none"
  /\ bpHeight = [p \in Panels |-> 300]
  /\ topWhenClosed = [p \in Panels |-> NoTop]
  /\ bpTimerArgs = <<>>
  /\ payloads = <<>>

\* TabBar: React.cloneElement(popup, { isOpen: index === selectedIndex })
IsOpenProp(p, sel) == p = sel

\* the open effect's test: !opened && ref.current && isOpen
ShouldOpenMutant(wasOpened, isOpen) == isOpen
ShouldOpen(wasOpened, isOpen) == ~wasOpened /\ isOpen

\* the close effect's test: opened && ref.current && !isOpen
ShouldClose(wasOpened, isOpen) == wasOpened /\ ~isOpen

\* what the open effect does before it returns: onOpen(height); the event is left to a timer
OpenEffectMutant(p, n) == <<Entry("onOpen", p, n), Entry("openEvent", p, n)>>
OpenEffect(p, n) == <<Entry("onOpen", p, n)>>

\* the timer the open effect schedules; the legacy panel schedules none while oldTop is
\* undefined, which is the case in the effect of its first render
OpenTimer(p, n, firstRender) ==
  IF legacy /\ firstRender THEN <<>> ELSE <<Entry("openEvent", p, n)>>

\* what the close effect does: onClose(height), then BottomPanelEvents.onClose.emit
CloseEffect(p, n) == <<Entry("onClose", p, n), Entry("closeEvent", p, n)>>

\* getBoundingClientRect().top of panel p while it is shown open, or closed
RectTop(p, shown) == IF shown THEN BottomEdge - bpHeight[p] ELSE BottomEdge

\* topWhenClosed.current of panel p after the layout effect of a pass that renders it with
\* isOpen = (p = sel): the effect runs after the first render and when isOpen has flipped,
\* and then the transition has yet to move the panel from where it was. The legacy panel
\* has oldTop instead, read from the DOM by every render (undefined in the first).
LayoutTop(p, sel, firstRender) ==
  IF legacy
    THEN IF firstRender THEN NoTop ELSE RectTop(p, IsOpenProp(p, selected))
    ELSE IF firstRender THEN RectTop(p, IsOpenProp(p, sel)) + bpHeight[p]
    ELSE IF IsOpenProp(p, sel) = IsOpenProp(p, selected) THEN topWhenClosed[p]
    ELSE IF IsOpenProp(p, sel) THEN RectTop(p, FALSE)
    ELSE RectTop(p, TRUE) + bpHeight[p]

\* the top the close event carries: topWhenClosed.current (legacy: oldTop + height)
CloseEventTop(twc, h) == IF legacy THEN twc + h ELSE twc

\* the height the open event carries: ref.current.clientHeight read by the timer's callback
\* (legacy: the height the effect captured)
OpenEventHeightMutant(captured, now) == captured
OpenEventHeight(captured, now) == IF legacy THEN captured ELSE now

\* the topWhenClosed.current the open event's top is computed from, read by the timer's
\* callback (legacy: the oldTop the effect captured)
OpenEventRef(captured, now) == IF legacy THEN captured ELSE now

\* what the entries of PanelEffects carry
PanelPayloads(p, sel, firstRender) ==
  (IF ShouldOpen(opened[p], IsOpenProp(p, sel))
     THEN <<Payload(bpHeight[p], NoTop, NoTop)>> ELSE <<>>)
  \o (IF ShouldClose(opened[p], IsOpenProp(p, sel))
        THEN <<Payload(bpHeight[p], NoTop, NoTop),
               Payload(bpHeight[p], CloseEventTop(LayoutTop(p, sel, firstRender), bpHeight[p]),
                       LayoutTop(p, sel, firstRender))>>
        ELSE <<>>)

\* what the closure of the timer of PanelTimers holds: the height handed to onOpen and,
\* in the legacy panel, oldTop
PanelTimerArgs(p, sel, firstRender) ==
  IF ShouldOpen(opened[p], IsOpenProp(p, sel)) /\ ~(legacy /\ firstRender)
    THEN <<Payload(bpHeight[p], NoTop, IF legacy THEN LayoutTop(p, sel, firstRender) ELSE NoTop)>>
    ELSE <<>>

RECURSIVE PayloadsUpTo(_, _, _)
PayloadsUpTo(k, sel, firstRender) ==
  IF k = 0 THEN <<>>
  ELSE PayloadsUpTo(k - 1, sel, firstRender) \o PanelPayloads(k, sel, firstRender)

RECURSIVE TimerArgsUpTo(_, _, _)
TimerArgsUpTo(k, sel, firstRender) ==
  IF k = 0 THEN <<>>
  ELSE TimerArgsUpTo(k - 1, sel, firstRender) \o PanelTimerArgs(k, sel, firstRender)

\* the two effects of panel p in the pass n that renders it with isOpen = (p = sel)
PanelEffects(p, sel, n) ==
  (IF ShouldOpen(opened[p], IsOpenProp(p, sel)) THEN OpenEffect(p, n) ELSE <<>>)
  \o (IF ShouldClose(opened[p], IsOpenProp(p, sel)) THEN CloseEffect(p, n) ELSE <<>>)

PanelTimers(p, sel, n, firstRender) ==
  IF ShouldOpen(opened[p], IsOpenProp(p, sel)) THEN OpenTimer(p, n, firstRender) ELSE <<>>

\* the effects of the panels 1..k, run in render order
RECURSIVE EffectsUpTo(_, _, _)
EffectsUpTo(k, sel, n) ==
  IF k = 0 THEN <<>> ELSE EffectsUpTo(k - 1, sel, n) \o PanelEffects(k, sel, n)

RECURSIVE TimersUpTo(_, _, _, _)
TimersUpTo(k, sel, n, firstRender) ==
  IF k = 0 THEN <<>>
  ELSE TimersUpTo(k - 1, sel, n, firstRender) \o PanelTimers(k, sel, n, firstRender)

\* one render with selectedIndex = sel, its effects, and the render the effects' setOpened causes
RenderPass(sel, firstRender) ==
  /\ pass' = pass + 1
  /\ log' = log \o EffectsUpTo(NumPanels, sel, pass + 1)
  /\ bpTimers' = bpTimers \o TimersUpTo(NumPanels, sel, pass + 1, firstRender)
  /\ topWhenClosed' = [p \in Panels |-> LayoutTop(p, sel, firstRender)]
  /\ payloads' = payloads \o PayloadsUpTo(NumPanels, sel, firstRender)
  /\ bpTimerArgs' = bpTimerArgs \o TimerArgsUpTo(NumPanels, sel, firstRender)
  /\ UNCHANGED bpHeight
  /\ opened' = [p \in Panels |->
                  IF ShouldOpen(opened[p], IsOpenProp(p, sel)) THEN TRUE
                  ELSE IF ShouldClose(opened[p], IsOpenProp(p, sel)) THEN FALSE
                  ELSE opened[p]]
  /\ flipsUp' = [p \in Panels |->
                   IF ~IsOpenProp(p, selected) /\ IsOpenProp(p, sel)
                     THEN flipsUp[p] + 1 ELSE flipsUp[p]]
  /\ flipsDown' = [p \in Panels |->
                     IF IsOpenProp(p, selected) /\ ~IsOpenProp(p, sel)
                       THEN flipsDown[p] + 1 ELSE flipsDown[p]]
  /\ swaps' = swaps \cup
       {[pass |-> pass + 1, closed |-> a, opened |-> b] : a \in {selected} \ {NoPanel, sel},
                                                          b \in {sel} \ {NoPanel, selected}}
  /\ selected' = sel

\* the first render of the TabBar, with the host's initial selectedIndex
Mount(sel) ==
  /\ UNCHANGED <<touchVars, panelVars, rbVars>>
  /\ ~bpMounted
  /\ bpMounted' = TRUE
  /\ RenderPass(sel, TRUE)
  /\ bpOp' = "mount"
  /\ UNCHANGED <<legacy, appData>>

\* the host changes selectedIndex (a tab is tapped, openPanel, closeSelectedPanel)
HostSelect(sel) ==
  /\ UNCHANGED <<touchVars, panelVars, rbVars>>
  /\ bpMounted
  /\ pass < MaxPasses
  /\ sel # selected
  /\ RenderPass(sel, FALSE)
  /\ bpOp' = "select"
  /\ UNCHANGED <<bpMounted, legacy, appData>>

\* the host re-renders panel p with other appData or callbacks: the effects' dependencies change
Rerender(p, data) ==
  /\ UNCHANGED <<touchVars, panelVars, rbVars>>
  /\ bpMounted
  /\ pass < MaxPasses
  /\ data # appData[p]
  /\ appData' = [appData EXCEPT ![p] = data]
  /\ RenderPass(selected, FALSE)
  /\ bpOp' = "rerender"
  /\ UNCHANGED <<bpMounted, legacy>>

\* the height of an open panel changes (its ResizablePanel is dragged, its contents change);
\* BottomPanel is not rendered again
PanelResize(p, h) ==
  /\ UNCHANGED <<touchVars, panelVars, rbVars>>
  /\ bpMounted
  /\ IsOpenProp(p, selected)
  /\ h # bpHeight[p]
  /\ bpHeight' = [bpHeight EXCEPT ![p] = h]
  /\ bpOp' = "resize"
  /\ UNCHANGED <<bpMounted, legacy, selected, opened, appData, bpTimers, log, pass, swaps,
                 flipsUp, flipsDown, topWhenClosed, bpTimerArgs, payloads>>

\* the earliest zero-delay timer runs: BottomPanelEvents.onOpen.emit
OpenTimerFire ==
  /\ UNCHANGED <<touchVars, panelVars, rbVars>>
  /\ bpTimers # <<>>
  /\ log' = Append(log, Head(bpTimers))
  /\ LET p == Head(bpTimers).panel
         a == Head(bpTimerArgs)
         h == OpenEventHeight(a.h, bpHeight[p])
         ref == OpenEventRef(a.ref, topWhenClosed[p])
     IN  payloads' = Append(payloads, Payload(h, ref - h, ref))
  /\ bpTimers' = Tail(bpTimers)
  /\ bpTimerArgs' = Tail(bpTimerArgs)
  /\ bpOp' = "timer"
  /\ UNCHANGED <<bpMounted, legacy, selected, opened, appData, pass, swaps, flipsUp, flipsDown,
                 bpHeight, topWhenClosed>>

(***************************************************************************)
(* ResizableBottomPanel: a BottomPanel around a ResizablePanel             *)
(***************************************************************************)
\* most timers of a ResizableBottomPanel pending at once
RbMaxTimers == 1

\* autoCloseHeight = 110, the default of the prop
AutoCloseHeight == 110
\* delay of the re-fire that onWindowResize schedules, in ms
RefireDelayMs == 500
\* what onFlickDownHandler adds to the delay of its timer, in ms
FlickingExtraMs == 50

\* heights the panel is rendered at: the threshold and just above it
RbHeights == {AutoCloseHeight, AutoCloseHeight + 1}
\* values the host's onAutoClose returns
AutoCloseResults == {RBool(FALSE), RBool(TRUE), RNum(RejectDelayMs)}
\* values the host's onResized returns to a ResizableBottomPanel, or it is not supplied
RbResizedResults == {RAbsent, RUndef, RBool(TRUE)}

RbCall(name, h, via) == [name |-> name, h |-> h, via |-> via]

RbTimer(kind, delay, isOpen) == [kind |-> kind, delay |-> delay, waited |-> 0, isOpen |-> isOpen]

RbNoOp == [op |-> "none", h |-> 0, isOpen |-> FALSE, hostResult |-> RAbsent,
           autoResult |-> RAbsent, result |-> RAbsent]

RbInit ==
  /\ rbMounted = TRUE
  /\ rbHasAutoClose \in BOOLEAN
  /\ rbHasFlickDown \in BOOLEAN
  /\ rbIsOpen = FALSE
  /\ rbAutoClosed = FALSE
  /\ rbFlickingDown = FALSE
  /\ rbHeight = AutoCloseHeight + 1
  /\ rbTimers = <<>>
  /\ rbLateSets = {}
  /\ rbSuppressed = FALSE
  /\ rbCalls = <<>>
  /\ rbOp = RbNoOp

rbStatic == <<rbHasAutoClose, rbHasFlickDown>>

\* onResizedHandler: onAutoClose && currentHeight <= autoCloseHeight, inside if (props.isOpen)
TakesAutoCloseMutant(isOpen, h) == isOpen /\ rbHasAutoClose /\ h < AutoCloseHeight
TakesAutoClose(isOpen, h) == isOpen /\ rbHasAutoClose /\ h <= AutoCloseHeight

\* onResized?.(currentHeight, top) ?? false
OrFalse(result) == IF result.t \in {"absent", "undefined"} THEN RBool(FALSE) ELSE result

\* onResizedHandler(currentHeight, top) of a render with props.isOpen = isOpen: what it
\* emits and calls, whether it went through onAutoCloseHandler, and what it returns
onResizedHandler(isOpen, h, hostResult, autoResult) ==
  [calls |-> (IF isOpen THEN <<RbCall("resizeEvent", h, "resized")>> ELSE <<>>)
             \o (IF TakesAutoClose(isOpen, h)
                   THEN <<RbCall("onAutoClose", 0, "resized")>>
                   ELSE IF hostResult.t # "absent"
                     THEN <<RbCall("onResized", h, "resized")>>
                     ELSE <<>>),
   auto |-> TakesAutoClose(isOpen, h),
   result |-> IF TakesAutoClose(isOpen, h) THEN autoResult ELSE OrFalse(hostResult)]

\* the record of a step that ran onResizedHandler: the inputs the handler used
RbOp(op, isOpen, r, hostResult, autoResult, result) ==
  [op |-> op, h |-> rbHeight, isOpen |-> isOpen,
   hostResult |-> IF r.auto THEN RAbsent ELSE hostResult,
   autoResult |-> IF r.auto \/ op = "flickDown" THEN autoResult ELSE RAbsent,
   result |-> result]

\* the host closes the panel when its onAutoClose returns true or a non-zero number
AutoCloseCloses(autoResult) ==
  \/ autoResult.t = "boolean" /\ autoResult.b
  \/ autoResult.t = "number" /\ autoResult.n # 0

\* onCloseHandler: if (!autoClosed) onClose?.(closeHeight)
SuppressesOnCloseMutant(flag) == FALSE
SuppressesOnClose(flag) == flag

\* BottomPanel's close effect of the render in which isOpen became false: onCloseHandler
\* with the autoClosed of that render, then the global close event
ClosePass(flag, h) ==
  <<RbCall("closeEffect", h, "close")>>
  \o (IF SuppressesOnClose(flag) THEN <<>> ELSE <<RbCall("onClose", h, "close")>>)
  \o <<RbCall("closeEvent", h, "close")>>

\* the renders that follow the handlers of a step: setAutoClosed(true) when onAutoCloseHandler
\* went through, and the close effect when the host closed the panel
Settle(made, autoInvoked, hostCloses, h) ==
  LET flag == rbAutoClosed \/ autoInvoked
      closing == hostCloses /\ rbIsOpen
  IN  /\ rbCalls' = made \o (IF closing THEN ClosePass(flag, h) ELSE <<>>)
      /\ rbSuppressed' = (rbSuppressed \/ (closing /\ SuppressesOnClose(flag)))
      /\ rbAutoClosed' = IF closing THEN FALSE ELSE flag
      /\ rbIsOpen' = IF closing THEN FALSE ELSE rbIsOpen

\* the host sets isOpen: BottomPanel's open effect calls onOpen and defers the open event
RbHostOpen ==
  /\ UNCHANGED <<touchVars, panelVars, bpVars>>
  /\ rbMounted /\ ~rbIsOpen
  /\ Len(rbTimers) < RbMaxTimers
  /\ rbIsOpen' = TRUE
  /\ rbCalls' = <<RbCall("onOpen", rbHeight, "open")>>
  /\ rbTimers' = Append(rbTimers, RbTimer("openEvent", 0, TRUE))
  /\ rbOp' = [RbNoOp EXCEPT !.op = "open"]
  /\ UNCHANGED <<rbMounted, rbStatic, rbAutoClosed, rbFlickingDown, rbHeight, rbLateSets,
                 rbSuppressed>>

\* the host clears isOpen: BottomPanel's close effect calls onCloseHandler
RbHostClose ==
  /\ UNCHANGED <<touchVars, panelVars, bpVars>>
  /\ rbMounted /\ rbIsOpen
  /\ Settle(<<>>, FALSE, TRUE, rbHeight)
  /\ rbOp' = [RbNoOp EXCEPT !.op = "close"]
  /\ UNCHANGED <<rbMounted, rbStatic, rbFlickingDown, rbHeight, rbTimers, rbLateSets>>

\* ResizablePanel's onDrag changes the height and calls onResizingHandler(top)
RbResizing(h) ==
  /\ UNCHANGED <<touchVars, panelVars, bpVars>>
  /\ rbMounted
  /\ rbHeight' = h
  /\ rbCalls' = (IF rbIsOpen THEN <<RbCall("resizingEvent", h, "resizing")>> ELSE <<>>)
                \o <<RbCall("onResizing", h, "resizing")>>
  /\ rbOp' = [RbNoOp EXCEPT !.op = "resizing", !.h = h, !.isOpen = rbIsOpen]
  /\ UNCHANGED <<rbMounted, rbStatic, rbIsOpen, rbAutoClosed, rbFlickingDown, rbTimers,
                 rbLateSets, rbSuppressed>>

\* ResizablePanel calls onResized(h, top) with its rendered height: an ordinary release
\* or the completion of a flick-up
RbResized(hostResult, autoResult) ==
  /\ UNCHANGED <<touchVars, panelVars, bpVars>>
  /\ rbMounted
  /\ LET r == onResizedHandler(rbIsOpen, rbHeight, hostResult, autoResult)
     IN  /\ Settle(r.calls, r.auto, r.auto /\ AutoCloseCloses(autoResult), rbHeight)
         /\ rbOp' = RbOp("resized", rbIsOpen, r, hostResult, autoResult, r.result)
  /\ UNCHANGED <<rbMounted, rbStatic, rbFlickingDown, rbHeight, rbTimers, rbLateSets>>

\* delay of the timer of onFlickDownHandler
FlickingDelay(autoCloseResult) ==
  FlickingExtraMs + (IF autoCloseResult.t = "number" THEN autoCloseResult.n
                                                      ELSE AnimationDurationMs)

\* ResizablePanel's flick-down: onResized(startHeight, startTop), then onFlickDownHandler.
\* syncFlush: the setState calls made from the native touch listener are rendered one by
\* one rather than batched, so a close caused by the first handler has its close effect
\* run before the second handler.
RbFlickDown(hostResult, flickResult, autoResult, syncFlush) ==
  /\ UNCHANGED <<touchVars, panelVars, bpVars>>
  /\ rbMounted
  /\ Len(rbTimers) < RbMaxTimers
  /\ LET r == onResizedHandler(rbIsOpen, rbHeight, hostResult, autoResult)
         closes1 == r.auto /\ AutoCloseCloses(autoResult)
         auto2 == ~rbHasFlickDown /\ rbHasAutoClose
         calls2 == IF rbHasFlickDown THEN <<RbCall("onFlickDown", 0, "flickDown")>>
                   ELSE IF rbHasAutoClose THEN <<RbCall("onAutoClose", 0, "flickDown")>>
                   ELSE <<>>
         closes2 == IF rbHasFlickDown THEN flickResult
                    ELSE auto2 /\ AutoCloseCloses(autoResult)
         autoCloseResult == IF auto2 THEN autoResult
                            ELSE IF rbHasFlickDown THEN RUndef ELSE RBool(FALSE)
     IN  /\ IF syncFlush /\ closes1 /\ rbIsOpen
              THEN /\ rbCalls' = r.calls \o ClosePass(TRUE, rbHeight) \o calls2
                   /\ rbSuppressed' = (rbSuppressed \/ SuppressesOnClose(TRUE))
                   /\ rbAutoClosed' = auto2
                   /\ rbIsOpen' = FALSE
              ELSE Settle(r.calls \o calls2, r.auto \/ auto2, closes1 \/ closes2, rbHeight)
         /\ rbTimers' = Append(rbTimers, RbTimer("flicking", FlickingDelay(autoCloseResult),
                                                 rbIsOpen))
         /\ rbOp' = RbOp("flickDown", rbIsOpen, r, hostResult,
                          IF auto2 THEN autoResult ELSE RAbsent,
                          IF rbHasFlickDown THEN RBool(flickResult) ELSE RBool(TRUE))
  /\ rbFlickingDown' = TRUE
  /\ UNCHANGED <<rbMounted, rbStatic, rbHeight, rbLateSets>>

\* onWindowResize schedules the re-fire when props.isOpen
SchedulesRefireMutant == TRUE
SchedulesRefire == rbIsOpen

\* window "resize": ResizableBottomPanel.onWindowResize
RbWindowResize ==
  /\ UNCHANGED <<touchVars, panelVars, bpVars>>
  /\ rbMounted
  /\ Len(rbTimers) < RbMaxTimers
  /\ rbTimers' = IF SchedulesRefire
                   THEN Append(rbTimers, RbTimer("refire", RefireDelayMs, rbIsOpen))
                   ELSE rbTimers
  /\ rbCalls' = <<>>
  /\ rbOp' = [RbNoOp EXCEPT !.op = "windowResize", !.isOpen = rbIsOpen]
  /\ UNCHANGED <<rbMounted, rbStatic, rbIsOpen, rbAutoClosed, rbFlickingDown, rbHeight,
                 rbLateSets, rbSuppressed>>

\* the component is removed: ref.current becomes null, the resize listener is removed
RbUnmount ==
  /\ UNCHANGED <<touchVars, panelVars, bpVars>>
  /\ rbMounted
  /\ rbMounted' = FALSE
  /\ rbCalls' = <<>>
  /\ rbOp' = [RbNoOp EXCEPT !.op = "unmount"]
  /\ UNCHANGED <<rbStatic, rbIsOpen, rbAutoClosed, rbFlickingDown, rbHeight, rbTimers,
                 rbLateSets, rbSuppressed>>

RbIsDue(t) == t.waited >= t.delay
RbNoneDue == \A i \in 1..Len(rbTimers) : ~RbIsDue(rbTimers[i])
RbTimeLeft(i) == rbTimers[i].delay - rbTimers[i].waited
RbTickStep ==
  IF \E i \in 1..Len(rbTimers) : RbTimeLeft(i) < TickMs
    THEN CHOOSE m \in {RbTimeLeft(i) : i \in 1..Len(rbTimers)} :
           \A i \in 1..Len(rbTimers) : m <= RbTimeLeft(i)
    ELSE TickMs

\* the clock advances; a due timer runs before the clock moves on
RbTick ==
  /\ UNCHANGED <<touchVars, panelVars, bpVars>>
  /\ rbTimers # <<>>
  /\ RbNoneDue
  /\ rbTimers' = [i \in 1..Len(rbTimers) |->
                    [rbTimers[i] EXCEPT !.waited = rbTimers[i].waited + RbTickStep]]
  /\ rbCalls' = <<>>
  /\ rbOp' = [RbNoOp EXCEPT !.op = "tick"]
  /\ UNCHANGED <<rbMounted, rbStatic, rbIsOpen, rbAutoClosed, rbFlickingDown, rbHeight,
                 rbLateSets, rbSuppressed>>

RbFirstDue == CHOOSE i \in 1..Len(rbTimers) :
                RbIsDue(rbTimers[i]) /\ \A j \in 1..(i - 1) : ~RbIsDue(rbTimers[j])

\* a setTimeout callback of ResizableBottomPanel or of its BottomPanel runs
RbTimerFire(hostResult, autoResult) ==
  /\ UNCHANGED <<touchVars, panelVars, bpVars>>
  /\ ~RbNoneDue
  /\ LET i == RbFirstDue
         t == rbTimers[i]
     IN  /\ rbTimers' = RemoveAt(rbTimers, i)
         /\ CASE t.kind = "refire" ->
                   \* if (ref.current) onResizedHandler(rect.height, rect.top), the handler
                   \* of the render that scheduled the timer
                   /\ IF rbMounted
                        THEN LET r == onResizedHandler(t.isOpen, rbHeight, hostResult, autoResult)
                             IN  /\ Settle(r.calls, r.auto,
                                           r.auto /\ AutoCloseCloses(autoResult), rbHeight)
                                 /\ rbOp' = RbOp("refire", t.isOpen, r, hostResult,
                                                  autoResult, r.result)
                        ELSE /\ rbCalls' = <<>>
                             /\ rbOp' = [RbNoOp EXCEPT !.op = "refireSkipped"]
                             /\ UNCHANGED <<rbIsOpen, rbAutoClosed, rbSuppressed>>
                   /\ UNCHANGED <<rbFlickingDown, rbLateSets>>
              [] t.kind = "flicking" ->
                   \* setFlickingDown(false), with no test of the component being mounted
                   /\ IF rbMounted
                        THEN /\ rbFlickingDown' = FALSE
                             /\ UNCHANGED rbLateSets
                        ELSE /\ rbLateSets' = rbLateSets \cup {"setFlickingDown"}
                             /\ UNCHANGED rbFlickingDown
                   /\ rbCalls' = <<>>
                   /\ rbOp' = [RbNoOp EXCEPT !.op = "flickingReset"]
                   /\ UNCHANGED <<rbIsOpen, rbAutoClosed, rbSuppressed>>
              [] t.kind = "openEvent" ->
                   \* ref.current.clientHeight: throws when ref.current is null
                   /\ rbCalls' = IF rbMounted
                                   THEN <<RbCall("openEvent", rbHeight, "open")>>
                                   ELSE <<>>
                   /\ rbOp' = [RbNoOp EXCEPT !.op = IF rbMounted THEN "openEvent"
                                                                 ELSE "openEventThrows"]
                   /\ UNCHANGED <<rbIsOpen, rbAutoClosed, rbFlickingDown, rbLateSets,
                                  rbSuppressed>>
  /\ UNCHANGED <<rbMounted, rbStatic, rbHeight>>

(***************************************************************************)
(* Touch layer: handlers                                                   *)
(***************************************************************************)
\* count of contacts at which _handlePointerDown accepts a touch-start
AcceptedTouches(n) == n = 1

\* A finger lands; onHandle says whether it lands on the drag handle
\* (TouchCaptor._handleTouchStart -> TouchDragHandle._handlePointerDown).
TouchStart(p, onHandle) ==
  /\ UNCHANGED <<panelVars, bpVars, rbVars>>
  /\ fingers < MaxFingers
  /\ fingers' = fingers + 1
  /\ lastCallback' = NoCallback
  /\ lastTouch' = NoPoint
  /\ IF onHandle /\ AcceptedTouches(fingers + 1)
       THEN /\ isPointerDown' = TRUE
            /\ initial' = p
            /\ sess' = "active"
            /\ sessInitial' = p
            /\ sessCrossed' = FALSE
            /\ sessSecond' = FALSE
            /\ sessStarts' = 0
            /\ sessStartArg' = NoPoint
            /\ sessEnds' = 0
       ELSE /\ sessSecond' = (sessSecond \/ (sess = "active" /\ ~sessCrossed /\ sessStarts = 0))
            /\ UNCHANGED <<isPointerDown, initial, sess, sessInitial, sessCrossed,
                           sessStarts, sessStartArg, sessEnds>>
  /\ UNCHANGED lastPosition

\* the test of _handlePointerMove that starts a drag
CrossesThreshold(current) ==
  initial # NoPoint /\ DistanceAtLeast(current, initial, DragThreshold)

\* document "touchmove" (TouchCaptor._handleDocumentTouchMove ->
\* TouchDragHandle._handlePointerMove -> DraggableComponent.onDragStart / onDrag)
TouchMove(current) ==
  /\ UNCHANGED <<panelVars, bpVars, rbVars>>
  /\ fingers >= 1
  /\ UNCHANGED <<fingers, isPointerDown, initial, sess, sessInitial, sessSecond, sessEnds>>
  /\ lastTouch' = current
  /\ sessCrossed' = (sessCrossed \/ (/\ sess = "active"
                                     /\ fingers = 1
                                     /\ DistanceAtLeast(current, sessInitial, DragThreshold)))
  /\ IF ~IsTouchStarted \/ fingers # 1
       THEN /\ lastCallback' = NoCallback
            /\ UNCHANGED <<lastPosition, sessStarts, sessStartArg>>
       ELSE IF lastPosition # NoPoint
         THEN /\ lastCallback' = [name |-> "onDrag", arg |-> Minus(current, lastPosition)]
              /\ UNCHANGED <<lastPosition, sessStarts, sessStartArg>>
         ELSE IF CrossesThreshold(current)
           THEN /\ lastPosition' = initial
                /\ lastCallback' = [name |-> "onDragStart", arg |-> initial]
                /\ sessStarts' = Cap2(sessStarts + 1)
                /\ sessStartArg' = initial
           ELSE /\ lastCallback' = NoCallback
                /\ UNCHANGED <<lastPosition, sessStarts, sessStartArg>>

\* document "touchend" (TouchCaptor._handleDocumentTouchEnd ->
\* TouchDragHandle._handlePointerUp -> DraggableComponent.onDragEnd)
TouchEnd ==
  /\ UNCHANGED <<panelVars, bpVars, rbVars>>
  /\ fingers >= 1
  /\ fingers' = fingers - 1
  /\ sess' = IF sess = "active" THEN "ended" ELSE sess
  /\ lastTouch' = NoPoint
  /\ UNCHANGED <<sessInitial, sessCrossed, sessSecond, sessStarts, sessStartArg>>
  /\ IF ~IsTouchStarted
       THEN /\ lastCallback' = NoCallback
            /\ UNCHANGED <<isPointerDown, initial, lastPosition, sessEnds>>
       ELSE /\ isPointerDown' = FALSE
            /\ initial' = NoPoint
            /\ IF lastPosition # NoPoint
                 THEN /\ lastPosition' = NoPoint
                      /\ lastCallback' = [name |-> "onDragEnd", arg |-> NoPoint]
                      /\ sessEnds' = Cap2(sessEnds + 1)
                 ELSE /\ lastCallback' = NoCallback
                      /\ UNCHANGED <<lastPosition, sessEnds>>

\* "touchcancel": the browser ends every contact; TouchCaptor.componentDidMount
\* registers listeners for "touchend" and "touchmove" only, so no handler runs.
TouchCancel ==
  /\ UNCHANGED <<panelVars, bpVars, rbVars>>
  /\ fingers >= 1
  /\ fingers' = 0
  /\ sess' = IF sess = "active" THEN "cancelled" ELSE sess
  /\ lastCallback' = NoCallback
  /\ lastTouch' = NoPoint
  /\ UNCHANGED <<isPointerDown, initial, lastPosition,
                 sessInitial, sessCrossed, sessSecond, sessStarts, sessStartArg, sessEnds>>


vars == <<touchVars, panelVars, bpVars, rbVars>>

TouchNext ==
  \/ \E p \in Points, onHandle \in BOOLEAN : TouchStart(p, onHandle)
  \/ \E p \in Points : TouchMove(p)
  \/ TouchEnd
  \/ TouchCancel

InitTouch ==
  /\ TouchInit /\ PanelInit /\ BottomInit /\ RbInit
  /\ flickEnabled = TRUE /\ legacy = FALSE /\ rbHasAutoClose = TRUE /\ rbHasFlickDown = FALSE

SpecTouch == InitTouch /\ [][TouchNext]_vars

PanelNext ==
  \/ DragStart
  \/ \E d \in DragSet \cup {NaN}, syncFlush \in BOOLEAN : Drag(d, syncFlush)
  \/ \E r \in ResizedResults, c \in BOOLEAN, f \in FlickUpHeights : DragEnd(r, c, f)
  \/ \E o \in OuterHeights : WindowResize(o)
  \/ Unmount
  \/ Tick
  \/ \E r \in ResizedResults : TimerFire(r)

InitPanel ==
  /\ TouchInit /\ PanelInit /\ BottomInit /\ RbInit
  /\ legacy = FALSE /\ rbHasAutoClose = TRUE /\ rbHasFlickDown = FALSE

SpecPanel == InitPanel /\ [][PanelNext]_vars

BottomNext ==
  \/ \E sel \in Panels \cup {NoPanel} : Mount(sel)
  \/ \E sel \in Panels \cup {NoPanel} : HostSelect(sel)
  \/ \E p \in Panels, data \in AppDataValues : Rerender(p, data)
  \/ \E p \in Panels, h \in BpHeights : PanelResize(p, h)
  \/ OpenTimerFire

InitBottom ==
  /\ TouchInit /\ PanelInit /\ BottomInit /\ RbInit
  /\ flickEnabled = TRUE /\ rbHasAutoClose = TRUE /\ rbHasFlickDown = FALSE

SpecBottom == InitBottom /\ [][BottomNext]_vars

ResizableNext ==
  \/ RbHostOpen
  \/ RbHostClose
  \/ \E h \in RbHeights : RbResizing(h)
  \/ \E r \in RbResizedResults, a \in AutoCloseResults : RbResized(r, a)
  \/ \E r \in RbResizedResults, f \in BOOLEAN, a \in AutoCloseResults, syncFlush \in BOOLEAN :
       RbFlickDown(r, f, a, syncFlush)
  \/ RbWindowResize
  \/ RbUnmount
  \/ RbTick
  \/ \E r \in RbResizedResults, a \in AutoCloseResults : RbTimerFire(r, a)

InitResizable ==
  /\ TouchInit /\ PanelInit /\ BottomInit /\ RbInit
  /\ flickEnabled = TRUE /\ legacy = FALSE

SpecResizable == InitResizable /\ [][ResizableNext]_vars

(***************************************************************************)
(* Claims about the touch layer                                            *)
(***************************************************************************)

\* C1: within one touch session (single-finger touch-start to the end of the
\* contact) onDragStart fires iff some single-contact move reported a point
\* at Euclidean distance >= 6 px from the initial touch point, it is passed
\* the initial touch point, and it fires at most once.
C1_DragStartIffThreshold ==
  sess # "none" =>
    /\ sessStarts <= 1
    /\ (sessStarts = 1) <=> sessCrossed
    /\ sessStarts = 1 => sessStartArg = sessInitial

\* C2: a session that reached drag-start and is over (by touch-end or by
\* touch-cancel) has fired onDragEnd exactly once; a session that never
\* reached drag-start fires no onDragEnd.
C2_DragEndOncePerSession ==
  /\ (sess \in {"ended", "cancelled"} /\ sessStarts >= 1) => sessEnds = 1
  /\ (sess # "none" /\ sessStarts = 0) => sessEnds = 0

\* C21: every onDrag carries the current touch point minus lastPosition;
\* lastPosition is set once, to the initial touch point, at drag-start and
\* stays there until drag-end, so the displacement handed to onDrag is the
\* total displacement from the initial touch point of the session.
C21_DragIsTotalDisplacement ==
  [][/\ lastCallback'.name = "onDrag" =>
          /\ lastCallback'.arg = Minus(lastTouch', lastPosition)
          /\ lastPosition' = lastPosition
          /\ lastCallback'.arg = Minus(lastTouch', sessInitial)
     /\ lastPosition' # lastPosition =>
          \/ lastCallback'.name = "onDragStart" /\ lastPosition' = sessInitial
          \/ lastCallback'.name = "onDragEnd" /\ lastPosition' = NoPoint]_vars

(***************************************************************************)
(* Claims about ResizablePanel                                             *)
(***************************************************************************)
TopsOfStep == {Top(domHeight, outerHeight), Top(domHeight', outerHeight')}

\* C3: every onDrag(d) whose candidate startHeight - d is below minHeight leaves
\* the height unchanged and calls no onResizing; a candidate >= minHeight
\* becomes the height and onResizing is called once with the top read from the
\* rendered panel; so a height set by dragging is >= minHeight.
C3_DragClampsAtMinHeight ==
  [][lastOp'.op = "onDrag" =>
       LET cand == startHeight - lastOp'.d
       IN  /\ cand < MinHeight => (height' = height /\ calls' = <<>>)
           /\ cand >= MinHeight =>
                /\ height' = HNum(cand)
                /\ Len(calls') = 1
                /\ calls'[1].name = "onResizing"
                /\ calls'[1].top \in TopsOfStep
           /\ (height' # height) => height'.n >= MinHeight]_vars

C3_Witness ==
  /\ lastOp.op = "onDrag"
  /\ lastOp.branch = "rejected"
  /\ startHeight - lastOp.d < MinHeight
  /\ height.t = "num"

\* no drag in progress, no timer pending
AtRest == mounted /\ phase = "idle" /\ timers = <<>>

\* C4 (as claimed): at rest the height value lies within [minHeight, maxHeight].
C4_HeightValueWithinBoundsAtRest ==
  (AtRest /\ height.t = "num") => (MinHeight <= height.n /\ height.n <= maxHeight)

\* C4 (amended): at rest the rendered height lies within [minHeight, maxHeight]
\* (the component renders minHeight and maxHeight as style limits); the height
\* value itself is only bounded below when it is a number.
C4_RenderedHeightWithinBoundsAtRest ==
  AtRest =>
    /\ MinHeight <= domHeight
    /\ MinHeight <= maxHeight => domHeight <= maxHeight
    /\ height.t = "num" => MinHeight <= height.n

C4_Witness ==
  /\ AtRest
  /\ lastOp.op = "onDragEnd"
  /\ lastOp.branch = "accepted"
  /\ height.t = "num"
  /\ height.n > maxHeight
  /\ domHeight = maxHeight

\* C5: an ordinary release whose onResized returns a non-zero number n leaves
\* the height and maxHeight as they are and schedules a restore n ms later; one
\* that returns true restores startHeight at once and leaves maxHeight as it
\* is; a restore timer runs only when its delay has elapsed and then sets the
\* height to the startHeight captured when it was scheduled.
C5_CancelledResizeRestores ==
  [][/\ (lastOp'.op = "onDragEnd" /\ lastOp'.branch = "cancelled"
           /\ lastOp'.result.t = "number" /\ lastOp'.result.n # 0) =>
          /\ height' = height
          /\ maxHeight' = maxHeight
          /\ timers' = Append(timers, [kind |-> "restore", delay |-> lastOp'.result.n,
                                       waited |-> 0, startHeight |-> startHeight,
                                       maxHeight |-> 0])
     /\ (lastOp'.op = "onDragEnd" /\ lastOp'.branch = "cancelled"
           /\ lastOp'.result = RBool(TRUE)) =>
          /\ height' = HNum(startHeight)
          /\ maxHeight' = maxHeight
          /\ timers' = timers
     /\ (lastOp'.op = "timer" /\ lastOp'.branch = "restore" /\ mounted) =>
          \E i \in 1..Len(timers) :
            /\ timers[i].kind = "restore"
            /\ timers[i].waited >= timers[i].delay
            /\ timers' = RemoveAt(timers, i)
            /\ height' = HNum(timers[i].startHeight)
            /\ maxHeight' = maxHeight]_vars

C5_Witness ==
  /\ ~flickEnabled /\ mounted
  /\ lastOp.op = "timer"
  /\ lastOp.branch = "restore"
  /\ height = HNum(lastOp.d)
  /\ startHeight # lastOp.d

\* false, 0 and undefined
Falsy(result) ==
  \/ result.t = "undefined"
  \/ result.t = "boolean" /\ ~result.b
  \/ result.t = "number" /\ result.n = 0

\* C6: an ordinary release whose onResized returns false, 0 or another falsy
\* value is accepted: no restore, maxHeight recomputed.
C6_FalsyResultAccepts ==
  (lastOp.op = "onDragEnd" /\ lastOp.branch \in {"accepted", "cancelled"}
     /\ Falsy(lastOp.result))
    => lastOp.branch = "accepted"

\* C7: drag-end takes the flick branch iff onFlickDown is supplied and the last
\* recorded |speed| > 0.5; when it does, nothing of the ordinary branch runs
\* (maxHeight is not recomputed, onResized is called at most once and then with
\* the drag-start snapshot); with no onFlickDown only the ordinary branch runs.
C7_FlickExcludesOrdinary ==
  [][lastOp'.op = "onDragEnd" =>
       LET s == lastDragInfo.speed
           fast == (s.den = 0 /\ s.num # 0) \/ (s.den > 0 /\ 2 * Abs(s.num) > s.den)
           flick == lastOp'.branch \in {"flickUp", "flickDown"}
           resized == {i \in 1..Len(calls') : calls'[i].name = "onResized"}
       IN  /\ flick <=> (flickEnabled /\ fast)
           /\ Cardinality(resized) <= 1
           /\ flick => /\ maxHeight' = maxHeight
                       /\ \A i \in resized : /\ lastOp'.branch = "flickDown"
                                             /\ calls'[i].h = startHeight
                                             /\ calls'[i].top = startTop
           /\ ~flickEnabled => lastOp'.branch \in {"unchanged", "accepted", "cancelled"}]_vars

C7_Witness ==
  /\ lastOp.op = "onDragEnd"
  /\ lastOp.branch = "flickDown"
  /\ Len(calls) = 2
  /\ calls[1] = Call("onResized", startHeight, startTop)
  /\ domHeight # startHeight

\* C23: an ordinary release whose rendered height equals startHeight calls no
\* onResized, schedules no restore and leaves the height and maxHeight as they
\* are; a drag that ends right after its drag-start, with no onDrag in
\* between, calls no onResized.
C23_UnchangedReleaseIsNoOp ==
  [][lastOp'.op = "onDragEnd" =>
       /\ (lastOp'.branch \in {"unchanged", "accepted", "cancelled"} /\ domHeight = startHeight) =>
            /\ calls' = <<>>
            /\ timers' = timers
            /\ height' = height
            /\ maxHeight' = maxHeight
       /\ lastOp.op = "onDragStart" =>
            \A i \in 1..Len(calls') : calls'[i].name # "onResized"]_vars

\* C24: an onDrag that is handed NaN changes nothing: the height, the
\* velocity sample and the rest of the drag state stay as they are and
\* onResizing is not called.
C24_NaNDragIsNoOp ==
  [][(lastOp'.op = "onDrag" /\ IsNaN(lastOp'.d)) =>
       /\ calls' = <<>>
       /\ height' = height
       /\ lastDragInfo' = lastDragInfo
       /\ UNCHANGED <<domHeight, startHeight, startTop, maxHeight, flickingUp, timers, phase>>]_vars

\* C28: between drag-start and drag-end the height changes only through
\* onDrag; a restore timer of an earlier gesture that runs during the drag
\* leaves the height as it is.
C28_OnlyDragChangesHeightWhileDragging ==
  [][(phase = "dragging" /\ phase' = "dragging" /\ height' # height) =>
       lastOp'.op = "onDrag"]_vars

\* C30: an onDrag replaces the velocity sample only when its displacement
\* differs from the sample's, and the speed it records is a change of
\* displacement over a strictly positive number of ms; a drag-end is a flick
\* only on such a speed.
C30_SpeedOverPositiveTime ==
  [][/\ (lastOp'.op = "onDrag" /\ ~IsNaN(lastOp'.d) /\ ~IsNaN(lastDragInfo.dragged)) =>
          /\ lastDragInfo' # lastDragInfo => lastOp'.d # lastDragInfo.dragged
          /\ lastDragInfo' # lastDragInfo => lastDragInfo'.speed.den > 0
     /\ (lastOp'.op = "onDragEnd" /\ lastOp'.branch \in {"flickUp", "flickDown"}) =>
          lastDragInfo.speed.den > 0]_vars

(***************************************************************************)
(* Claims about BottomPanel                                                *)
(***************************************************************************)
CountOf(kind, p) == Cardinality({i \in 1..Len(log) : log[i].kind = kind /\ log[i].panel = p})

\* C8: when panel A closes and panel B opens in the same pass, the global
\* onClose event of A comes before the global onOpen event of B, whichever of
\* the two is rendered first.
C8_CloseEventBeforeOpenEvent ==
  \A s \in swaps : \A i \in 1..Len(log) :
    log[i] = Entry("openEvent", s.opened, s.pass) =>
      \E j \in 1..(i - 1) : log[j] = Entry("closeEvent", s.closed, s.pass)

C8_Witness ==
  \E s \in swaps :
    /\ s.opened < s.closed
    /\ \E i \in 1..Len(log) : log[i] = Entry("openEvent", s.opened, s.pass)

\* C9: each false-to-true flip of a panel's isOpen (a mount with isOpen
\* included) invokes its onOpen once, each true-to-false flip invokes its
\* onClose once, renders that do not flip isOpen invoke neither, and onClose
\* is never invoked for a panel that has not been opened.
C9_OneCallbackPerFlip ==
  \A p \in Panels :
    /\ CountOf("onOpen", p) = flipsUp[p]
    /\ CountOf("onClose", p) = flipsDown[p]
    /\ CountOf("onClose", p) <= CountOf("onOpen", p)

C9_Witness ==
  /\ bpOp = "rerender"
  /\ \E p \in Panels : /\ p = selected
                       /\ appData[p] # 0
                       /\ flipsUp[p] = 2
                       /\ flipsDown[p] = 1

\* the global open and close events observed by a listener, in order
OpenCloseEvents == SelectSeq(log, LAMBDA e : e.kind \in {"openEvent", "closeEvent"})

\* C10: with at most one panel open at a time, a listener never sees two
\* global onOpen events without a global onClose event between them.
C10_NoTwoOpensWithoutClose ==
  \A i \in 1..Len(OpenCloseEvents) : \A j \in (i + 1)..Len(OpenCloseEvents) :
    (OpenCloseEvents[i].kind = "openEvent" /\ OpenCloseEvents[j].kind = "openEvent") =>
      \E k \in (i + 1)..(j - 1) : OpenCloseEvents[k].kind = "closeEvent"

\* C11: when panel A closes and panel B opens in the same pass, the onClose
\* callback of A is invoked before the onOpen callback of B, whichever of the
\* two is rendered first.
C11_CloseCallbackBeforeOpenCallback ==
  \A s \in swaps : \A i \in 1..Len(log) :
    log[i] = Entry("onOpen", s.opened, s.pass) =>
      \E j \in 1..(i - 1) : log[j] = Entry("onClose", s.closed, s.pass)

\* the entries a step adds to the log
NewEntries == (Len(log) + 1)..Len(log')

\* C22 (as claimed): the open event carries the height h that was handed to
\* onOpen and top = topWhenClosed - h; the close event directly follows
\* onClose(h) and carries the same h and top = topWhenClosed + h.
C22_EventsCarryCallbackHeight ==
  \A i \in 1..Len(log) :
    /\ log[i].kind = "openEvent" =>
         \E j \in 1..(i - 1) :
           /\ log[j] = Entry("onOpen", log[i].panel, log[i].pass)
           /\ payloads[i].h = payloads[j].h
           /\ payloads[i].top = payloads[i].ref - payloads[j].h
    /\ log[i].kind = "closeEvent" =>
         /\ i > 1
         /\ log[i - 1] = Entry("onClose", log[i].panel, log[i].pass)
         /\ payloads[i].h = payloads[i - 1].h
         /\ payloads[i].top = payloads[i].ref + payloads[i].h

\* C22 (amended): onOpen is handed the panel's height at the open transition;
\* the open event, emitted later by the timer, carries the height the panel
\* has when the timer runs (the legacy panel: the height handed to onOpen) and
\* top = topWhenClosed - that height; the close event directly follows
\* onClose(h) in the same pass, carries the same h and top = topWhenClosed
\* (the legacy panel: oldTop + h, its top while open plus its height).
C22_EventsCarryHeightAtEmission ==
  [][\A i \in NewEntries :
       LET p == log'[i].panel
       IN  /\ log'[i].kind \in {"onOpen", "onClose"} => payloads'[i].h = bpHeight[p]
           /\ log'[i].kind = "openEvent" =>
                /\ bpOp' = "timer"
                /\ \E j \in 1..Len(log) :
                     /\ log[j] = Entry("onOpen", p, log'[i].pass)
                     /\ legacy => payloads'[i].h = payloads[j].h
                /\ ~legacy => /\ payloads'[i].h = bpHeight[p]
                              /\ payloads'[i].ref = topWhenClosed[p]
                /\ payloads'[i].top = payloads'[i].ref - payloads'[i].h
           /\ log'[i].kind = "closeEvent" =>
                /\ i - 1 \in NewEntries
                /\ log'[i - 1] = Entry("onClose", p, log'[i].pass)
                /\ payloads'[i].h = payloads'[i - 1].h
                /\ ~legacy => /\ payloads'[i].ref = topWhenClosed'[p]
                              /\ payloads'[i].top = payloads'[i].ref
                /\ legacy => payloads'[i].top = payloads'[i].ref + payloads'[i].h]_vars

C22_Witness ==
  /\ ~legacy
  /\ \E i \in 1..Len(log), j \in 1..Len(log), k \in 1..Len(log) :
       /\ j < i /\ i < k
       /\ log[j].kind = "onOpen" /\ log[i].kind = "openEvent" /\ log[k].kind = "closeEvent"
       /\ log[i].panel = log[j].panel /\ log[i].pass = log[j].pass
       /\ log[k].panel = log[i].panel
       /\ payloads[i].h # payloads[j].h
       /\ payloads[i].top = BottomEdge - payloads[i].h
       /\ payloads[k].top = BottomEdge
       /\ payloads[k].ref = BottomEdge

\* the global open and close events of panel p, in the order they were emitted
EventsOf(p) ==
  SelectSeq(log, LAMBDA e : e.panel = p /\ e.kind \in {"openEvent", "closeEvent"})

\* C25: the global events of one panel alternate, open event first: an open
\* event deferred by the timer is not emitted after the close event of the
\* close that ended that opening.
C25_EventsAlternatePerPanel ==
  \A p \in Panels : \A i \in 1..Len(EventsOf(p)) :
    EventsOf(p)[i].kind = (IF i % 2 = 1 THEN "openEvent" ELSE "closeEvent")

(***************************************************************************)
(* Claims about ResizableBottomPanel                                       *)
(***************************************************************************)
\* calls of the given name that onResizedHandler made in a step
ByResizedHandler(made, name) ==
  {i \in 1..Len(made) : made[i].via = "resized" /\ made[i].name = name}

RECURSIVE AutoClosedAfter(_, _, _)
AutoClosedAfter(made, i, flag) ==
  IF i > Len(made) THEN flag
  ELSE IF made[i].name = "onAutoClose" THEN AutoClosedAfter(made, i + 1, TRUE)
  ELSE IF made[i].name = "closeEffect" THEN AutoClosedAfter(made, i + 1, FALSE)
  ELSE AutoClosedAfter(made, i + 1, flag)

\* C13: once the host's onAutoClose has been invoked, the close transition
\* that follows does not call the host's onClose and clears the flag; a close
\* transition with the flag clear calls onClose; the flag changes in no other
\* way, and every close transition runs the close handler.
C13_OnCloseSuppressedOnce ==
  [][/\ rbAutoClosed' = AutoClosedAfter(rbCalls', 1, rbAutoClosed)
     /\ \A i \in 1..Len(rbCalls') :
          rbCalls'[i].name = "closeEffect" =>
            LET suppressed == AutoClosedAfter(SubSeq(rbCalls', 1, i - 1), 1, rbAutoClosed)
                calledOnClose == i < Len(rbCalls') /\ rbCalls'[i + 1].name = "onClose"
            IN  calledOnClose <=> ~suppressed
     /\ (rbIsOpen /\ ~rbIsOpen') =>
          Cardinality({i \in 1..Len(rbCalls') : rbCalls'[i].name = "closeEffect"}) = 1]_vars

C13_Witness ==
  /\ rbSuppressed
  /\ rbOp.op = "close"
  /\ \E i \in 1..Len(rbCalls) : rbCalls[i].name = "onClose"
  /\ ~rbAutoClosed

\* C26: a close transition skips the host's onClose only when the close was
\* caused by auto-close, that is when onAutoClose was invoked in the same
\* step and returned a value that closes the panel; a close that follows an
\* onAutoClose the host declined calls onClose.
C26_OnCloseSkippedOnlyForAutoClose ==
  [][\A i \in 1..Len(rbCalls') :
       (/\ rbCalls'[i].name = "closeEffect"
        /\ ~(i < Len(rbCalls') /\ rbCalls'[i + 1].name = "onClose")) =>
         /\ AutoCloseCloses(rbOp'.autoResult)
         /\ \E j \in 1..(i - 1) : rbCalls'[j].name = "onAutoClose"]_vars

\* C27: the end of a drag gesture (a release, or a flick-down with its two
\* handlers) invokes the host's onAutoClose at most once.
C27_AutoCloseAtMostOncePerGesture ==
  [][Cardinality({i \in 1..Len(rbCalls') : rbCalls'[i].name = "onAutoClose"}) <= 1]_vars

\* C29: the global resize and resizing events are emitted, and onAutoClose
\* is invoked in place of onResized, only while the panel's isOpen is true,
\* the 500 ms re-fire of a window resize included.
C29_ResizeEventsOnlyWhileOpen ==
  [][\A i \in 1..Len(rbCalls') :
       (\/ rbCalls'[i].name \in {"resizeEvent", "resizingEvent"}
        \/ rbCalls'[i].name = "onAutoClose" /\ rbCalls'[i].via = "resized") => rbIsOpen]_vars

\* C16: a deferred callback that fires after its component was unmounted
\* calls no state setter.
C16_DeferredCallbacksCheckMounted == rbLateSets = {}

\* C20: a window resize schedules one re-fire 500 ms later iff the panel is
\* open at that moment and nothing else schedules one; the re-fire runs when
\* its 500 ms have elapsed and hands the rendered height of that moment to
\* the resized handling once.
C20_RefireOnceIffOpen ==
  [][/\ rbOp'.op = "windowResize" =>
          rbTimers' = IF rbIsOpen
                        THEN Append(rbTimers, [kind |-> "refire", delay |-> 500,
                                               waited |-> 0, isOpen |-> TRUE])
                        ELSE rbTimers
     /\ (Len(rbTimers') > Len(rbTimers) /\ rbTimers'[Len(rbTimers')].kind = "refire") =>
          rbOp'.op = "windowResize"
     /\ rbOp'.op = "refire" =>
          /\ \E i \in 1..Len(rbTimers) :
               /\ rbTimers[i].kind = "refire"
               /\ rbTimers[i].waited >= 500
               /\ rbTimers' = RemoveAt(rbTimers, i)
          /\ rbOp'.h = rbHeight
          /\ Cardinality(ByResizedHandler(rbCalls', "resizeEvent")) = 1
          /\ \A i \in ByResizedHandler(rbCalls', "resizeEvent") : rbCalls'[i].h = rbHeight]_vars

C20_Witness ==
  /\ rbOp.op = "refire"
  /\ rbOp.h = rbHeight
  /\ ByResizedHandler(rbCalls, "resizeEvent") # {}
  /\ ~rbIsOpen

(***************************************************************************)
(* Claims about flicks, multi-touch and maxHeight                          *)
(***************************************************************************)
\* C14: a flick-up at drag-end (onFlickDown supplied, speed < -0.5) sets the
\* height to flickUpHeight, or to "100vh" when there is none, sets flickingUp
\* and calls no onResized; flickingUp is cleared only by the flick-up timer,
\* which runs when animation-duration + 50 ms have elapsed, clears the flag
\* and calls onResized once with the rendered height and top of that moment.
C14_FlickUpDefersOnResized ==
  [][/\ (lastOp'.op = "onDragEnd" /\ lastOp'.branch = "flickUp") =>
          /\ flickEnabled
          /\ lastDragInfo.speed.num < 0
          /\ height' = (IF lastOp'.flickUpHeight.t = "undefined"
                          THEN [t |-> "vh", n |-> 100] ELSE lastOp'.flickUpHeight)
          /\ flickingUp' = TRUE
          /\ calls' = <<>>
          /\ timers' = Append(timers, [kind |-> "flickUp",
                                       delay |-> AnimationDurationMs + FlickExtraMs,
                                       waited |-> 0, startHeight |-> 0, maxHeight |-> 0])
     /\ (flickingUp /\ ~flickingUp') =>
          (lastOp'.op = "timer" /\ lastOp'.branch = "flickUp")
     /\ (lastOp'.op = "timer" /\ lastOp'.branch = "flickUp" /\ mounted) =>
          /\ \E i \in 1..Len(timers) :
               /\ timers[i].kind = "flickUp"
               /\ timers[i].waited >= AnimationDurationMs + FlickExtraMs
               /\ timers' = RemoveAt(timers, i)
          /\ flickingUp' = FALSE
          /\ calls' = IF lastOp'.result.t = "absent" THEN <<>>
                      ELSE <<Call("onResized", domHeight, Top(domHeight, outerHeight))>>]_vars

C14_Witness ==
  /\ mounted
  /\ lastOp.op = "timer" /\ lastOp.branch = "flickUp"
  /\ ~flickingUp
  /\ height.t = "num"
  /\ Len(calls) = 1 /\ calls[1].name = "onResized" /\ calls[1].h = domHeight

\* C15: a flick-down at drag-end calls onResized(startHeight, startTop) and
\* then the flick-down handler, leaves the height as it is, and schedules the
\* restore of startHeight after animation-duration + 50 ms iff the handler
\* returned true; restores are scheduled by drag-ends only.
C15_FlickDownRestoresIffTruthy ==
  [][/\ (lastOp'.op = "onDragEnd" /\ lastOp'.branch = "flickDown") =>
          /\ calls' = (IF lastOp'.result.t = "absent" THEN <<>>
                       ELSE <<Call("onResized", startHeight, startTop)>>)
                      \o <<Call("onFlickDown", 0, 0)>>
          /\ height' = height
          /\ timers' = IF lastOp'.closes
                         THEN Append(timers, [kind |-> "restore",
                                              delay |-> AnimationDurationMs + FlickExtraMs,
                                              waited |-> 0, startHeight |-> startHeight,
                                              maxHeight |-> 0])
                         ELSE timers
     /\ (Len(timers') > Len(timers) /\ timers'[Len(timers')].kind = "restore") =>
          /\ lastOp'.op = "onDragEnd"
          /\ \/ lastOp'.branch = "flickDown" /\ lastOp'.closes
             \/ lastOp'.branch = "cancelled"]_vars

C15_Witness ==
  /\ lastOp.op = "onDragEnd" /\ lastOp.branch = "flickDown"
  /\ lastOp.closes
  /\ Len(timers) = 1
  /\ timers[1] = Timer("restore", 350, startHeight, 0)
  /\ domHeight # startHeight

\* C17: a touch-start or touch-move that carries a number of contacts other
\* than one calls neither onDragStart nor onDrag and leaves isPointerDown,
\* the initial position and lastPosition as they are; once another contact
\* has appeared in a session before the threshold was crossed, that session
\* fires no onDragStart.
C17_MultiTouchIgnored ==
  [][/\ ((fingers' > fingers /\ fingers' # 1) \/ (fingers' = fingers /\ fingers # 1)) =>
          /\ lastCallback' = NoCallback
          /\ UNCHANGED <<isPointerDown, initial, lastPosition>>
     /\ sessSecond' => sessStarts' = 0]_vars

\* the smallest of: the content-derived height (left out when the panel can exceed its
\* contents), props.maxHeight when specified, the window height less 100 and the safe areas
ThreeWayMin(content, outer) ==
  LET bounds == (IF heightCanExceedContents THEN {} ELSE {content})
                \cup (IF propsMaxHeight # 0 THEN {propsMaxHeight} ELSE {})
                \cup {outer - 100 - SafeAreaOffsets}
  IN  CHOOSE m \in bounds : \A b \in bounds : m <= b

\* C18: onDragStart sets maxHeight to the three-way minimum whose
\* content-derived term is the rendered height plus max(scroll extent of the
\* trailing child - its visible extent, 0); an accepted release sets it to
\* the three-way minimum whose content-derived term is the rendered height.
C18_MaxHeightIsThreeWayMin ==
  [][/\ lastOp'.op = "onDragStart" =>
          maxHeight' = ThreeWayMin(domHeight + Max(Max(ContentHeight, domHeight) - domHeight, 0),
                                   outerHeight)
     /\ (lastOp'.op = "onDragEnd" /\ lastOp'.branch = "accepted") =>
          maxHeight' = ThreeWayMin(domHeight, outerHeight)]_vars

C18_Witness ==
  /\ lastOp.op = "onDragStart"
  /\ propsMaxHeight # 0
  /\ startHeight < propsMaxHeight
  /\ maxHeight = propsMaxHeight

\* C19: when the deferred work of a window resize has run, maxHeight is the
\* three-way minimum for the new window height (the content-derived term being
\* the optimal height, the rendered height or the bound already in force).
C19_WindowResizeRecomputesMaxHeight ==
  [][(lastOp'.op = "timer" /\ lastOp'.branch = "windowResize" /\ mounted) =>
       \E content \in {getOptimalHeight(domHeight), domHeight, maxHeight} :
         maxHeight' = ThreeWayMin(content, outerHeight)]_vars

====
